---- MODULE Spec2Model ----
(***************************************************************************)
(* DoflerClient (dofler/api/client.py): the reporting client of a sensor.  *)
(* One client object, the thread that calls it, the worker pool of its    *)
(* FuturesSession and the local store (Account, Image and Stat tables).    *)
(*                                                                         *)
(* Text is a sequence of one-character strings, bytes are a sequence of   *)
(* integers, a table is a bag of rows.                                     *)
(***************************************************************************)
EXTENDS Integers, Sequences, FiniteSets, Bags, TLC

VARIABLES
    pc,          \* "none" | "constructing" | "ready" | "failed": life of the client object
    host,        \* self.host
    port,        \* self.port
    ssl,         \* self.ssl
    anonymize,   \* self.anonymize
    username,    \* self.username
    Session,     \* TRUE once self.Session (the sessionmaker) exists
    queue,       \* work queue of self.opener: requests submitted, not yet taken by a worker
    inflight,    \* bag of the requests the pool's workers are executing
    waiting,     \* the call whose .result() the calling thread is blocked in, or "none"
    ret,         \* the last call and how it ended for the caller: [op, args, kind, value]
    accounts,    \* Account table
    images,      \* Image table
    stats,       \* Stat table
    now,         \* int(time.time()) as the store last read it
    loginAnswered, \* history: the response to /post/login has been received
    log,         \* history: the bag of the API calls made so far, <<op, args>> each
    sessions,    \* sessions made with self.Session(): how many were opened, how many closed
    callers      \* the local image calls in progress of the callers that share the store

vars == <<pc, host, port, ssl, anonymize, username, Session, queue, inflight,
          waiting, ret, accounts, images, stats, now, loginAnswered, log, sessions,
          callers>>

store == <<accounts, images, stats>>
channel == <<queue, inflight>>
identity == <<host, port, ssl, anonymize, username>>

----------------------------------------------------------------------------
(* Bounds of the exploration *)

MaxCalls == 2          \* API calls per behaviour (Spec)
MaxOutstanding == 2    \* requests queued or in flight at once (Spec)
MaxQueue == 1          \* requests waiting behind the workers (SpecPool)
MaxTime == 1           \* the clock reads 0..MaxTime
MaxCallers == 2        \* callers that share the store (SpecShared)
MaxReports == 3        \* image calls of these callers per behaviour (SpecShared)

(* FuturesSession(max_workers=10) *)
max_workers == 10

----------------------------------------------------------------------------
(* Inputs *)

LocalHosts == {"localhost", "127.0.0.1"}
Hosts == LocalHosts \cup {"collector.example"}
Ports == {8080}
SensorNames == {<<"s", "1">>}
SensorPasswords == {<<"p", "w">>}

Usernames == {<<"b", "o", "b">>}
Passwords == {<<>>, <<"a", "b">>, <<"a", "b", "c">>, <<"a", "b", "c", "d">>,
              <<"a", "b", "c", "e">>, <<"<", "!", "-", "-", "x", "-", "-", ">">>}
Infos == {<<"f", "&", "l">>}
Protos == {<<"f", "t", "p">>, <<"h", "t", "t", "p">>}
Parsers == {<<"f", "t", "p">>}

StatProtos == {<<"h", "t", "t", "p">>}
StatCounts == {42}

Envs == {"images", "accounts"}
ServiceNames == {<<"f", "t", "p">>}

B1 == <<137, 80>>
B2 == <<255, 216>>

(* The sensor's file system: the files that exist, with their bytes. *)
FileSystem == (<<"a", ".", "p">> :> B1) @@ (<<"b", ".", "j">> :> B1) @@ (<<"c">> :> B2)
Filenames == DOMAIN FileSystem \cup {<<"m", ".", "p">>}

(* The callers that share one store, and a caller that is in no call. *)
Callers == 1..MaxCallers
Idle == [pc |-> "idle"]

(* Response bodies the collector may send. *)
Bodies == {<<"[", "]">>, <<"[", "1", "]">>, <<"o", "o", "p", "s">>}

----------------------------------------------------------------------------
(* Python values *)

None == [tag |-> "None", items |-> <<>>]
NoRet == [op |-> "none", args |-> <<>>, kind |-> "none", value |-> None]
Pending(op, args) == [op |-> op, args |-> args, kind |-> "pending", value |-> None]
Returned(op, args, v) == [op |-> op, args |-> args, kind |-> "returned", value |-> v]
Raised(op, args, e) ==
    [op |-> op, args |-> args, kind |-> "raised", value |-> [tag |-> e, items |-> <<>>]]

RECURSIVE Repeat(_, _)
(* c * n *)
Repeat(c, n) == IF n <= 0 THEN <<>> ELSE <<c>> \o Repeat(c, n - 1)

Last(s) == s[Len(s)]

RECURSIVE split(_, _)
(* s.split(sep): the pieces of s between the separators, at least one piece *)
split(s, sep) ==
    IF s = <<>> THEN << <<>> >>
    ELSE LET rest == split(Tail(s), sep)
         IN  IF Head(s) = sep THEN << <<>> >> \o rest
             ELSE << <<Head(s)>> \o Head(rest) >> \o Tail(rest)

----------------------------------------------------------------------------
(* Library functions the client calls *)

(* bleach.clean(text) with its defaults (strip=False, strip_comments=True), on text
   over letters, "*", "-", "&", "<", ">" and "!". In the inputs "<" is never followed by
   a letter, "/" or "?", so no tag is opened, and "&" never starts an entity.
   "<!--" opens a comment that runs to the next "-->", any other "<!" one that runs to
   the next ">"; either runs to the end of the text when it is not closed, and is
   stripped. Any other "<", and every ">" and "&", is escaped. *)
RECURSIVE skip_comment(_)
skip_comment(s) ==
    IF s = <<>> THEN <<>>
    ELSE IF Len(s) >= 3 /\ SubSeq(s, 1, 3) = <<"-", "-", ">">> THEN SubSeq(s, 4, Len(s))
    ELSE skip_comment(Tail(s))

RECURSIVE skip_bogus_comment(_)
skip_bogus_comment(s) ==
    IF s = <<>> THEN <<>>
    ELSE IF Head(s) = ">" THEN Tail(s) ELSE skip_bogus_comment(Tail(s))

escape(c) ==
    CASE c = "&" -> <<"&", "a", "m", "p", ";">>
      [] c = "<" -> <<"&", "l", "t", ";">>
      [] c = ">" -> <<"&", "g", "t", ";">>
      [] OTHER   -> <<c>>

RECURSIVE clean(_)
clean(text) ==
    IF text = <<>> THEN <<>>
    ELSE IF Len(text) >= 4 /\ SubSeq(text, 1, 4) = <<"<", "!", "-", "-">>
         THEN clean(skip_comment(SubSeq(text, 5, Len(text))))
    ELSE IF Len(text) >= 2 /\ SubSeq(text, 1, 2) = <<"<", "!">>
         THEN clean(skip_bogus_comment(SubSeq(text, 3, Len(text))))
    ELSE escape(Head(text)) \o clean(Tail(text))

RECURSIVE digest(_, _)
digest(data, h) ==
    IF data = <<>> THEN h ELSE digest(Tail(data), (h * 31 + Head(data)) % 65536)

(* dofler.md5.md5hash(data): a deterministic digest of the raw bytes *)
md5hash(data) == digest(data, 7)

Digits == ("0" :> 0) @@ ("1" :> 1) @@ ("2" :> 2)

(* json.loads(body), on bodies that are a list of one-digit numbers or not JSON at
   all: [ok, value] *)
json_loads(body) ==
    IF /\ Len(body) >= 2
       /\ Head(body) = "["
       /\ Last(body) = "]"
       /\ \A k \in 2..(Len(body) - 1) : body[k] \in DOMAIN Digits
    THEN [ok |-> TRUE,
          value |-> [tag |-> "list",
                     items |-> [k \in 1..(Len(body) - 2) |-> Digits[body[k + 1]]]]]
    ELSE [ok |-> FALSE, value |-> None]

----------------------------------------------------------------------------
(* dofler.models: the rows of the store *)

Account(u, p, i, pr, pa) ==
    [username |-> u, password |-> p, info |-> i, proto |-> pr, parser |-> pa]

Image(timestamp, ftype, data, md5) ==
    [timestamp |-> timestamp, filetype |-> ftype, data |-> data, md5sum |-> md5,
     count |-> 1]

Stat(proto, uname, count) ==
    [proto |-> proto, username |-> uname, count |-> count, timestamp |-> now']

RECURSIVE RowCount(_, _)
(* s.query(T).filter_by(...).count(): the number of rows of a table among the
   matching ones *)
RowCount(table, rows) ==
    IF rows = {} THEN 0
    ELSE LET r == CHOOSE x \in rows : TRUE
         IN  CopiesIn(r, table) + RowCount(table, rows \ {r})

add(table, row) == table (+) SetToBag({row})

(* s = self.Session(): the sessions once one more is opened *)
new_session == [sessions EXCEPT !.opened = @ + 1]

(* s.close(): the sessions ss once one of them is closed *)
close(ss) == [ss EXCEPT !.closed = @ + 1]

----------------------------------------------------------------------------
(* The client *)

(* the mode test with one of the two loopback names *)
IsLocal_by_name == host = "localhost"

IsLocal == host \in LocalHosts

Outstanding == Len(queue) + BagCardinality(inflight)

(* location = '%s%s:%s%s' % (ssl[self.ssl], self.host, self.port, url) *)
Location(s, h, p, url) ==
    [scheme |-> IF s THEN "https://" ELSE "http://", host |-> h, port |-> p, url |-> url]

Request(url, data, files, awaited) ==
    [location |-> Location(ssl, host, port, url),
     data |-> data, files |-> files, awaited |-> awaited]

(* a call that hands its request to a worker itself, and so needs an idle one *)
call_handing_over(url, data, files, awaited) ==
    /\ queue = <<>>
    /\ BagCardinality(inflight) < max_workers
    /\ queue' = Append(queue, Request(url, data, files, awaited))
    /\ UNCHANGED inflight

(* call(url, data, files): self.opener.post(...) submits the request to the pool and
   returns its future; awaited tells whether the caller goes on to .result() *)
call(url, data, files, awaited) ==
    /\ queue' = Append(queue, Request(url, data, files, awaited))
    /\ UNCHANGED inflight

(* account() with the masking applied on the local path alone *)
Anonymized_local_only(password) ==
    IF IsLocal /\ anonymize /\ Len(password) >= 3
    THEN SubSeq(password, 1, 3) \o Repeat("*", Len(password) - 3)
    ELSE password

(* account() with one "*" per character of the password after its first 3 *)
Anonymized_too_long(password) ==
    IF anonymize /\ Len(password) >= 3
    THEN SubSeq(password, 1, 3) \o Repeat("*", Len(password))
    ELSE password

(* the masking of account(): if self.anonymize: if len(password) >= 3: ... *)
Anonymized(password) ==
    IF anonymize /\ Len(password) >= 3
    THEN SubSeq(password, 1, 3) \o Repeat("*", Len(password) - 3)
    ELSE password

Init ==
    /\ pc = "none"
    /\ host = "" /\ port = 0 /\ ssl = FALSE /\ anonymize = FALSE /\ username = <<>>
    /\ Session = FALSE
    /\ queue = <<>> /\ inflight = EmptyBag
    /\ waiting = "none"
    /\ ret = NoRet
    /\ accounts = EmptyBag /\ images = EmptyBag /\ stats = EmptyBag
    /\ now = 0
    /\ loginAnswered = FALSE
    /\ log = EmptyBag
    /\ sessions = [opened |-> 0, closed |-> 0]
    /\ callers = [c \in Callers |-> Idle]

(* login(username, password) of a client with the fields s, h, p: the request it
   posts and then waits for *)
login(s, h, p, uname, password) ==
    [location |-> Location(s, h, p, "/post/login"),
     data |-> [username |-> uname, password |-> password],
     files |-> {}, awaited |-> TRUE]

(* the constructor with a login that does not wait for its result *)
Construct_no_wait(h, p, uname, password, s, anon) ==
    /\ pc = "none"
    /\ host' = h /\ port' = p /\ ssl' = s /\ anonymize' = anon /\ username' = uname
    /\ pc' = "ready"
    /\ Session' = (h \in LocalHosts)
    /\ queue' = <<[login(s, h, p, uname, password) EXCEPT !.awaited = FALSE]>>
    /\ inflight' = EmptyBag
    /\ ret' = Returned("__init__", <<h, p, uname, password, s, anon>>, None)
    /\ UNCHANGED <<waiting, store, now, loginAnswered, sessions, callers>>

(* DoflerClient(host, port, username, password, ssl, anon), up to the wait in login *)
Construct(h, p, uname, password, s, anon) ==
    /\ pc = "none"
    /\ host' = h /\ port' = p /\ ssl' = s /\ anonymize' = anon /\ username' = uname
    /\ pc' = "constructing"
    /\ queue' = <<login(s, h, p, uname, password)>>
    /\ inflight' = EmptyBag
    /\ waiting' = "login"
    /\ ret' = Pending("__init__", <<h, p, uname, password, s, anon>>)
    /\ UNCHANGED <<Session, store, now, loginAnswered, sessions, callers>>

Ready == pc = "ready" /\ waiting = "none"

(* the query with the values as passed, not as they are stored *)
matching_raw(uname, password, info) ==
    RowCount(accounts, {r \in BagToSet(accounts) : /\ r.username = uname
                                                  /\ r.password = password
                                                  /\ r.info = info})

(* s.query(Account).filter_by(username=bleach.clean(username))
                     .filter_by(password=bleach.clean(password))
                     .filter_by(info=bleach.clean(info)).count() *)
matching(uname, password, info) ==
    RowCount(accounts, {r \in BagToSet(accounts) : /\ r.username = clean(uname)
                                                  /\ r.password = clean(password)
                                                  /\ r.info = clean(info)})

(* account() that overwrites the row it finds with the proto and parser reported *)
account_upserting(uname, pw, info, proto, parser) ==
    /\ Ready
    /\ LET password == Anonymized(pw)
           row == Account(clean(uname), clean(password), clean(info), clean(proto),
                          clean(parser))
           found == {r \in BagToSet(accounts) : /\ r.username = row.username
                                                /\ r.password = row.password
                                                /\ r.info = row.info}
       IN  IF IsLocal
           THEN /\ IF password = <<>> THEN UNCHANGED accounts
                   ELSE accounts' = add(accounts (-) SetToBag(found), row)
                /\ sessions' = new_session
                /\ UNCHANGED <<images, stats, channel>>
           ELSE /\ call("/post/account",
                        [username |-> uname, password |-> password, info |-> info,
                         proto |-> proto, parser |-> parser], {}, FALSE)
                /\ UNCHANGED <<store, sessions>>
    /\ ret' = Returned("account", <<uname, pw, info, proto, parser>>, None)
    /\ UNCHANGED <<pc, identity, Session, waiting, now, loginAnswered, callers>>

(* account() that looks for the password as passed and stores the masked one *)
account_query_unmasked(uname, pw, info, proto, parser) ==
    /\ Ready
    /\ LET password == Anonymized(pw)
       IN  IF IsLocal
           THEN /\ IF matching(uname, pw, info) < 1 /\ password # <<>>
                   THEN accounts' = add(accounts, Account(clean(uname), clean(password),
                                            clean(info), clean(proto), clean(parser)))
                   ELSE UNCHANGED accounts
                /\ sessions' = new_session
                /\ UNCHANGED <<images, stats, channel>>
           ELSE /\ call("/post/account",
                        [username |-> uname, password |-> password, info |-> info,
                         proto |-> proto, parser |-> parser], {}, FALSE)
                /\ UNCHANGED <<store, sessions>>
    /\ ret' = Returned("account", <<uname, pw, info, proto, parser>>, None)
    /\ UNCHANGED <<pc, identity, Session, waiting, now, loginAnswered, callers>>

account(uname, pw, info, proto, parser) ==
    /\ Ready
    /\ LET password == Anonymized(pw)
       IN  IF IsLocal
           THEN /\ IF matching(uname, password, info) < 1 /\ password # <<>>
                   THEN accounts' = add(accounts, Account(clean(uname), clean(password),
                                            clean(info), clean(proto), clean(parser)))
                   ELSE UNCHANGED accounts
                /\ sessions' = new_session
                /\ UNCHANGED <<images, stats, channel>>
           ELSE /\ call("/post/account",
                        [username |-> uname, password |-> password, info |-> info,
                         proto |-> proto, parser |-> parser], {}, FALSE)
                /\ UNCHANGED <<store, sessions>>
    /\ ret' = Returned("account", <<uname, pw, info, proto, parser>>, None)
    /\ UNCHANGED <<pc, identity, Session, waiting, now, loginAnswered, callers>>

(* time.time(): the clock is read; it never runs backwards *)
time == now' \in now..MaxTime

(* the image found is seen again, its counter left as it was *)
seen_again_same_count(img) == [img EXCEPT !.timestamp = now']

(* the image found is seen again: image.timestamp = int(time.time()); image.count += 1 *)
seen_again(img) == [img EXCEPT !.timestamp = now', !.count = img.count + 1]

(* image() that opens its session before it looks for the file *)
image_session_first(filename) ==
    /\ Ready
    /\ IF IsLocal
       THEN /\ sessions' = close(new_session)
            /\ IF filename \in DOMAIN FileSystem
               THEN LET data == FileSystem[filename]
                        md5 == md5hash(data)
                        found == {r \in BagToSet(images) : r.md5sum = md5}
                    IN  /\ time
                        /\ IF RowCount(images, found) > 0
                           THEN LET old == CHOOSE r \in found : TRUE
                                IN  images' = add(images (-) SetToBag({old}),
                                                  seen_again(old))
                           ELSE LET ftype == Last(split(filename, "."))
                                IN  images' = add(images, Image(now', ftype, data, md5))
               ELSE UNCHANGED <<images, now>>
            /\ UNCHANGED <<accounts, stats, channel>>
       ELSE /\ IF filename \in DOMAIN FileSystem
               THEN call("/post/image", [filetype |-> Last(split(filename, "."))],
                         {[field |-> "file", name |-> filename,
                           data |-> FileSystem[filename]]}, FALSE)
               ELSE UNCHANGED channel
            /\ UNCHANGED <<store, now, sessions>>
    /\ ret' = Returned("image", <<filename>>, None)
    /\ UNCHANGED <<pc, identity, Session, waiting, loginAnswered, callers>>

(* image() that stores the file reported over the row it finds *)
image_replacing(filename) ==
    /\ Ready
    /\ IF filename \in DOMAIN FileSystem
       THEN IF IsLocal
            THEN LET data == FileSystem[filename]
                     md5 == md5hash(data)
                     found == {r \in BagToSet(images) : r.md5sum = md5}
                     ftype == Last(split(filename, "."))
                 IN  /\ time
                     /\ IF RowCount(images, found) > 0
                        THEN LET old == CHOOSE r \in found : TRUE
                             IN  images' = add(images (-) SetToBag({old}),
                                               [Image(now', ftype, data, md5)
                                                   EXCEPT !.count = old.count + 1])
                        ELSE images' = add(images, Image(now', ftype, data, md5))
                     /\ sessions' = close(new_session)
                     /\ UNCHANGED <<accounts, stats, channel>>
            ELSE /\ call("/post/image", [filetype |-> Last(split(filename, "."))],
                         {[field |-> "file", name |-> filename,
                           data |-> FileSystem[filename]]}, FALSE)
                 /\ UNCHANGED <<store, now, sessions>>
       ELSE UNCHANGED <<store, channel, now, sessions>>
    /\ ret' = Returned("image", <<filename>>, None)
    /\ UNCHANGED <<pc, identity, Session, waiting, loginAnswered, callers>>

image(filename) ==
    /\ Ready
    /\ IF filename \in DOMAIN FileSystem
       THEN IF IsLocal
            THEN LET data == FileSystem[filename]
                     md5 == md5hash(data)
                     found == {r \in BagToSet(images) : r.md5sum = md5}
                 IN  /\ time
                     /\ IF RowCount(images, found) > 0
                        THEN LET old == CHOOSE r \in found : TRUE
                             IN  images' = add(images (-) SetToBag({old}), seen_again(old))
                        ELSE LET ftype == Last(split(filename, "."))
                             IN  images' = add(images, Image(now', ftype, data, md5))
                     /\ sessions' = close(new_session)
                     /\ UNCHANGED <<accounts, stats, channel>>
            ELSE /\ call("/post/image", [filetype |-> Last(split(filename, "."))],
                         {[field |-> "file", name |-> filename,
                           data |-> FileSystem[filename]]}, FALSE)
                 /\ UNCHANGED <<store, now, sessions>>
       ELSE UNCHANGED <<store, channel, now, sessions>>
    /\ ret' = Returned("image", <<filename>>, None)
    /\ UNCHANGED <<pc, identity, Session, waiting, loginAnswered, callers>>

(* stat() that inserts only when the store holds no such row yet *)
stat_merging(proto, count) ==
    /\ Ready
    /\ IF IsLocal
       THEN /\ time
            /\ stats' = IF BagIn(Stat(proto, username, count), stats) THEN stats
                        ELSE add(stats, Stat(proto, username, count))
            /\ sessions' = close(new_session)
            /\ UNCHANGED <<accounts, images, channel>>
       ELSE /\ call("/post/stat",
                    [proto |-> proto, count |-> count, username |-> username], {}, FALSE)
            /\ UNCHANGED <<store, now, sessions>>
    /\ ret' = Returned("stat", <<proto, count>>, None)
    /\ UNCHANGED <<pc, identity, Session, waiting, loginAnswered, callers>>

stat(proto, count) ==
    /\ Ready
    /\ IF IsLocal
       THEN /\ time
            /\ stats' = add(stats, Stat(proto, username, count))
            /\ sessions' = close(new_session)
            /\ UNCHANGED <<accounts, images, channel>>
       ELSE /\ call("/post/stat",
                    [proto |-> proto, count |-> count, username |-> username], {}, FALSE)
            /\ UNCHANGED <<store, now, sessions>>
    /\ ret' = Returned("stat", <<proto, count>>, None)
    /\ UNCHANGED <<pc, identity, Session, waiting, loginAnswered, callers>>

(* reset() that leaves a local client's collector alone *)
reset_remote_only(env) ==
    /\ Ready
    /\ IF IsLocal THEN UNCHANGED channel
       ELSE call("/post/reset", [type |-> env], {}, FALSE)
    /\ ret' = Returned("reset", <<env>>, None)
    /\ UNCHANGED <<pc, identity, Session, waiting, store, now, loginAnswered, sessions,
                   callers>>

reset(env) ==
    /\ Ready
    /\ call("/post/reset", [type |-> env], {}, FALSE)
    /\ ret' = Returned("reset", <<env>>, None)
    /\ UNCHANGED <<pc, identity, Session, waiting, store, now, loginAnswered, sessions,
                   callers>>

(* the service calls without the .result(): the future is dropped *)
service_call_no_wait(op, args, action, parser) ==
    /\ Ready
    /\ call("/post/services", [action |-> action, parser |-> parser], {}, FALSE)
    /\ ret' = Returned(op, args, None)
    /\ UNCHANGED <<pc, identity, Session, waiting, store, now, loginAnswered, sessions,
                   callers>>

(* services(), start(name), stop(name): post to /post/services and wait *)
service_call(op, args, action, parser) ==
    /\ Ready
    /\ call("/post/services", [action |-> action, parser |-> parser], {}, TRUE)
    /\ waiting' = op
    /\ ret' = Pending(op, args)
    /\ UNCHANGED <<pc, identity, Session, store, now, loginAnswered, sessions, callers>>

services ==
    service_call("services", <<>>, <<"n", "o", "n", "e">>, <<"n", "o", "n", "e">>)

start(name) == service_call("start", <<name>>, <<"S", "t", "a", "r", "t">>, name)

stop(name) == service_call("stop", <<name>>, <<"S", "t", "o", "p">>, name)

----------------------------------------------------------------------------
(* The worker pool of self.opener and the collector *)

(* a request queued is taken at once, by one more worker when all are busy *)
WorkerStart_spawning ==
    /\ queue # <<>>
    /\ inflight' = add(inflight, Head(queue))
    /\ queue' = Tail(queue)
    /\ UNCHANGED <<pc, identity, Session, waiting, ret, store, now, loginAnswered,
                   sessions, callers>>

(* an idle worker takes the oldest queued request *)
WorkerStart ==
    /\ queue # <<>>
    /\ BagCardinality(inflight) < max_workers
    /\ inflight' = add(inflight, Head(queue))
    /\ queue' = Tail(queue)
    /\ UNCHANGED <<pc, identity, Session, waiting, ret, store, now, loginAnswered,
                   sessions, callers>>

(* .result() of the login request returns: __init__ goes on to create the engine *)
LoginReturns ==
    /\ pc' = "ready"
    /\ Session' = IsLocal
    /\ loginAnswered' = TRUE
    /\ waiting' = "none"
    /\ ret' = Returned("__init__", ret.args, None)

(* .result() of the login request raises: __init__ raises, there is no client *)
LoginRaises ==
    /\ pc' = "failed"
    /\ waiting' = "none"
    /\ ret' = Raised("__init__", ret.args, "ConnectionError")
    /\ UNCHANGED <<Session, loginAnswered>>

(* json.loads(...result().content) of services(), start() and stop() *)
ServiceReturns(body) ==
    /\ ret' = IF json_loads(body).ok
              THEN Returned(waiting, ret.args, json_loads(body).value)
              ELSE Raised(waiting, ret.args, "ValueError")
    /\ waiting' = "none"
    /\ UNCHANGED <<pc, Session, loginAnswered>>

ServiceRaises ==
    /\ ret' = Raised(waiting, ret.args, "ConnectionError")
    /\ waiting' = "none"
    /\ UNCHANGED <<pc, Session, loginAnswered>>

(* the collector answers the request r with body: the future of r has its result *)
WorkerRespond(r, body) ==
    /\ r \in BagToSet(inflight)
    /\ inflight' = inflight (-) SetToBag({r})
    /\ IF r.awaited
       THEN IF waiting = "login" THEN LoginReturns ELSE ServiceReturns(body)
       ELSE UNCHANGED <<pc, Session, waiting, ret, loginAnswered>>
    /\ UNCHANGED <<identity, queue, store, now, sessions, callers>>

(* a failed request that nobody waits for is submitted again *)
WorkerFail_retrying(r) ==
    /\ r \in BagToSet(inflight)
    /\ inflight' = inflight (-) SetToBag({r})
    /\ IF r.awaited
       THEN /\ IF waiting = "login" THEN LoginRaises ELSE ServiceRaises
            /\ UNCHANGED queue
       ELSE /\ queue' = Append(queue, r)
            /\ UNCHANGED <<pc, Session, waiting, ret, loginAnswered>>
    /\ UNCHANGED <<identity, store, now, sessions, callers>>

(* the collector cannot be reached: the future of r holds a ConnectionError *)
WorkerFail(r) ==
    /\ r \in BagToSet(inflight)
    /\ inflight' = inflight (-) SetToBag({r})
    /\ IF r.awaited
       THEN IF waiting = "login" THEN LoginRaises ELSE ServiceRaises
       ELSE UNCHANGED <<pc, Session, waiting, ret, loginAnswered>>
    /\ UNCHANGED <<identity, queue, store, now, sessions, callers>>

----------------------------------------------------------------------------
(* The client and its collector, a bounded number of calls *)

(* a call is made, and is logged, while the bounds leave room for it *)
Logged(op, args) ==
    /\ BagCardinality(log) < MaxCalls
    /\ Outstanding < MaxOutstanding
    /\ log' = add(log, <<op, args>>)

Next ==
    \/ /\ \E h \in Hosts, p \in Ports, u \in SensorNames, pw \in SensorPasswords,
             s \in BOOLEAN, a \in BOOLEAN : Construct(h, p, u, pw, s, a)
       /\ UNCHANGED log
    \/ \E u \in Usernames, pw \in Passwords, i \in Infos, pr \in Protos,
          pa \in Parsers :
          Logged("account", <<u, pw, i, pr, pa>>) /\ account(u, pw, i, pr, pa)
    \/ \E f \in Filenames : Logged("image", <<f>>) /\ image(f)
    \/ \E pr \in StatProtos, c \in StatCounts : Logged("stat", <<pr, c>>) /\ stat(pr, c)
    \/ \E e \in Envs : Logged("reset", <<e>>) /\ reset(e)
    \/ Logged("services", <<>>) /\ services
    \/ \E n \in ServiceNames : Logged("start", <<n>>) /\ start(n)
    \/ \E n \in ServiceNames : Logged("stop", <<n>>) /\ stop(n)
    \/ WorkerStart /\ UNCHANGED log
    \/ \E r \in BagToSet(inflight), b \in Bodies : WorkerRespond(r, b) /\ UNCHANGED log
    \/ \E r \in BagToSet(inflight) : WorkerFail(r) /\ UNCHANGED log

Spec == Init /\ [][Next]_vars

----------------------------------------------------------------------------
(* The worker pool under load: one payload per call, any number of calls, the
   caller at most MaxQueue requests ahead of the workers *)

PoolRoom == Len(queue) < MaxQueue /\ UNCHANGED log

PoolUser == <<"b", "o", "b">>
PoolPassword == <<"a", "b", "c", "d">>
PoolText == <<"f", "t", "p">>
PoolFile == <<"a", ".", "p">>

NextPool ==
    \/ /\ \E h \in Hosts, p \in Ports, u \in SensorNames, pw \in SensorPasswords,
             a \in BOOLEAN : Construct(h, p, u, pw, TRUE, a)
       /\ UNCHANGED log
    \/ PoolRoom /\ ~IsLocal
          /\ account(PoolUser, PoolPassword, PoolText, PoolText, PoolText)
    \/ PoolRoom /\ ~IsLocal /\ image(PoolFile)
    \/ PoolRoom /\ ~IsLocal /\ \E pr \in StatProtos, c \in StatCounts : stat(pr, c)
    \/ PoolRoom /\ reset("images")
    \/ WorkerStart /\ UNCHANGED log
    \/ \E r \in BagToSet(inflight), b \in Bodies : WorkerRespond(r, b) /\ UNCHANGED log
    \/ \E r \in BagToSet(inflight) : WorkerFail(r) /\ UNCHANGED log

SpecPool == Init /\ [][NextPool]_vars

(* the workers of a ThreadPoolExecutor wait on its queue: a request that is queued
   while a worker is idle is taken *)
SpecPoolFair == SpecPool /\ WF_vars(WorkerStart /\ UNCHANGED log)

----------------------------------------------------------------------------
(* Several callers of image() on one store in local mode: the statements of a call
   are the steps, and the steps of different calls interleave. Each statement of the
   store is atomic and sees what was committed before it. *)

(* image(filename) of caller c up to the existence query: the file is read and hashed,
   a session opened and the rows with its hash counted; a missing file is skipped *)
image_count(c, filename) ==
    /\ Ready /\ IsLocal
    /\ callers[c].pc = "idle"
    /\ IF filename \in DOMAIN FileSystem
       THEN LET md5 == md5hash(FileSystem[filename])
                found == {r \in BagToSet(images) : r.md5sum = md5}
            IN  /\ callers' = [callers EXCEPT ![c] =
                                   [pc |-> IF RowCount(images, found) > 0 THEN "found"
                                           ELSE "new",
                                    filename |-> filename, md5 |-> md5]]
                /\ sessions' = new_session
       ELSE UNCHANGED <<callers, sessions>>
    /\ UNCHANGED <<pc, identity, Session, channel, waiting, ret, store, now, loginAnswered>>

(* image = s.query(Image).filter_by(md5sum=md5).one() *)
image_one(c) ==
    /\ callers[c].pc = "found"
    /\ \E r \in BagToSet(images) :
           /\ r.md5sum = callers[c].md5
           /\ callers' = [callers EXCEPT ![c] =
                              [pc |-> "loaded", filename |-> callers[c].filename,
                               md5 |-> callers[c].md5, image |-> r]]
    /\ UNCHANGED <<pc, identity, Session, channel, waiting, ret, store, now, loginAnswered,
                   sessions>>

(* the timestamp and the counter of the image loaded are set, s.merge(image),
   s.commit() writes them to the row with its key, s.close() *)
image_merge(c) ==
    /\ callers[c].pc = "loaded"
    /\ time
    /\ LET stored == {r \in BagToSet(images) : r.md5sum = callers[c].md5}
       IN  images' = add(images (-) SetToBag(stored), seen_again(callers[c].image))
    /\ sessions' = close(sessions)
    /\ callers' = [callers EXCEPT ![c] = Idle]
    /\ UNCHANGED <<pc, identity, Session, channel, waiting, ret, accounts, stats,
                   loginAnswered>>

(* s.add(Image(...)), s.commit(), s.close(): the insert fails on the primary key when
   a row with this hash exists by now, the exception leaves image() before s.close() *)
image_add(c) ==
    /\ callers[c].pc = "new"
    /\ time
    /\ LET filename == callers[c].filename
           stored == {r \in BagToSet(images) : r.md5sum = callers[c].md5}
       IN  IF stored = {}
           THEN /\ images' = add(images, Image(now', Last(split(filename, ".")),
                                               FileSystem[filename], callers[c].md5))
                /\ sessions' = close(sessions)
                /\ callers' = [callers EXCEPT ![c] = Idle]
           ELSE /\ callers' = [callers EXCEPT ![c] =
                                   [pc |-> "raised", error |-> "IntegrityError"]]
                /\ UNCHANGED <<images, sessions>>
    /\ UNCHANGED <<pc, identity, Session, channel, waiting, ret, accounts, stats,
                   loginAnswered>>

(* local clients, constructed and logged in, that have made no call yet *)
InitShared ==
    /\ pc = "ready"
    /\ host \in LocalHosts /\ port = 8080 /\ ssl = FALSE /\ anonymize = FALSE
    /\ username = <<"s", "1">>
    /\ Session = TRUE
    /\ queue = <<>> /\ inflight = EmptyBag
    /\ waiting = "none"
    /\ ret = Returned("__init__", <<host, 8080, <<"s", "1">>, <<"p", "w">>, FALSE, FALSE>>,
                      None)
    /\ accounts = EmptyBag /\ images = EmptyBag /\ stats = EmptyBag
    /\ now = 0
    /\ loginAnswered = TRUE
    /\ log = EmptyBag
    /\ sessions = [opened |-> 0, closed |-> 0]
    /\ callers = [c \in Callers |-> Idle]

NextShared ==
    \/ \E c \in Callers, f \in Filenames :
          /\ BagCardinality(log) < MaxReports
          /\ log' = add(log, <<"image", <<f>> >>)
          /\ image_count(c, f)
    \/ \E c \in Callers : image_one(c) /\ UNCHANGED log
    \/ \E c \in Callers : image_merge(c) /\ UNCHANGED log
    \/ \E c \in Callers : image_add(c) /\ UNCHANGED log

SpecShared == InitShared /\ [][NextShared]_vars

----------------------------------------------------------------------------
(* Properties *)

LoopbackHosts == {"localhost", "127.0.0.1"}

(* the call that was made in this step, in Spec *)
Called(op) == log' # log /\ ret'.op = op

(* the number of logged image calls on an existing file with the bytes B *)
Reports(B) ==
    RowCount(log, {c \in BagToSet(log) : /\ c[1] = "image"
                                         /\ c[2][1] \in DOMAIN FileSystem
                                         /\ FileSystem[c[2][1]] = B})

Contents == {FileSystem[f] : f \in DOMAIN FileSystem}

(* C1: in local mode, after any sequence of image calls on existing files, the store
   holds for every byte sequence B at most one ImageRecord keyed by hash(B): none
   while B was never reported, and otherwise exactly one, which holds B under its
   hash and whose counter is the number of image calls that reported B. *)
ImageIdempotence ==
    host \in LoopbackHosts =>
        \A B \in Contents :
            /\ RowCount(images, {r \in BagToSet(images) : r.md5sum = md5hash(B)})
                   = IF Reports(B) > 0 THEN 1 ELSE 0
            /\ \A r \in BagToSet(images) :
                   r.md5sum = md5hash(B) => r.count = Reports(B) /\ r.data = B

(* the same bytes were reported twice, under two file names, and are stored once *)
ImageIdempotenceWitness ==
    /\ host \in LoopbackHosts
    /\ Reports(B1) = 2
    /\ CopiesIn(<<"image", << <<"a", ".", "p">> >> >>, log) = 1
    /\ CopiesIn(<<"image", << <<"b", ".", "j">> >> >>, log) = 1
    /\ \E r \in BagToSet(images) : r.data = B1 /\ r.count = 2
    /\ BagCardinality(images) = 1

SameTriple(r, q) ==
    r.username = q.username /\ r.password = q.password /\ r.info = q.info

(* C2: no two AccountRecords of the store share their (username, password as
   stored, info) triple, so an account call whose stored triple exists inserts
   nothing. *)
AccountTripleUnique ==
    \A r \in BagToSet(accounts) :
        RowCount(accounts, {q \in BagToSet(accounts) : SameTriple(r, q)}) = 1

(* account was called twice with the same fields and the store holds one record *)
AccountTripleUniqueWitness ==
    /\ host \in LoopbackHosts
    /\ \E c \in BagToSet(log) : c[1] = "account" /\ CopiesIn(c, log) = 2
    /\ BagCardinality(accounts) = 1

(* C3: no AccountRecord of the store has an empty password. *)
NoEmptyPassword ==
    \A r \in BagToSet(accounts) : r.password # <<>>

(* the masking rule, stated position by position *)
Masked(password, flag) ==
    IF flag /\ Len(password) >= 3
    THEN [k \in 1..Len(password) |-> IF k <= 3 THEN password[k] ELSE "*"]
    ELSE password

AccountPost(fields) ==
    [location |-> [scheme |-> IF ssl THEN "https://" ELSE "http://", host |-> host,
                   port |-> port, url |-> "/post/account"],
     data |-> fields, files |-> {}, awaited |-> FALSE]

(* C4, as claimed: in remote mode account posts to /post/account the fields exactly
   as the caller passed them, the password unmasked, whatever the anonymize flag. *)
RemoteAccountUnmodified ==
    [][Called("account") /\ host \notin LoopbackHosts =>
          queue' = Append(queue, AccountPost(
                       [username |-> ret'.args[1], password |-> ret'.args[2],
                        info |-> ret'.args[3], proto |-> ret'.args[4],
                        parser |-> ret'.args[5]]))]_vars

(* C4, as the code has it: in remote mode account posts to /post/account the
   username, info, proto and parser exactly as passed, and the password masked by
   the anonymize rule (so unchanged only when the flag is unset or the password is
   shorter than 3 characters). *)
RemoteAccountMasked ==
    [][Called("account") /\ host \notin LoopbackHosts =>
          queue' = Append(queue, AccountPost(
                       [username |-> ret'.args[1],
                        password |-> Masked(ret'.args[2], anonymize),
                        info |-> ret'.args[3], proto |-> ret'.args[4],
                        parser |-> ret'.args[5]]))]_vars

(* a remote account call has returned and its request, still queued, carries a
   password that is not the one passed *)
RemoteAccountMaskedWitness ==
    /\ host \notin LoopbackHosts
    /\ ret.op = "account" /\ ret.kind = "returned"
    /\ queue # <<>>
    /\ Last(queue).location.url = "/post/account"
    /\ Last(queue).data.password = <<"a", "b", "c", "*">>
    /\ ret.args[2] = <<"a", "b", "c", "d">>

(* C5: the password account stores or posts is the password passed when the
   anonymize flag is unset or the password is shorter than 3 characters, and
   otherwise its first 3 characters followed by len-3 "*", of the same length: the
   remote post carries it as it is, a record inserted locally carries it cleaned. *)
MaskingRule ==
    [][Called("account") =>
          LET password == Masked(ret'.args[2], anonymize)
          IN  /\ Len(password) = Len(ret'.args[2])
              /\ IF host \in LoopbackHosts
                 THEN accounts' # accounts =>
                          \E r \in BagToSet(accounts') :
                              /\ accounts' = accounts (+) SetToBag({r})
                              /\ r.password = clean(password)
                 ELSE Last(queue').data.password = password]_vars

(* a masked password is stored *)
MaskingRuleWitness ==
    /\ host \in LoopbackHosts /\ anonymize
    /\ ret.op = "account" /\ ret.args[2] = <<"a", "b", "c", "e">>
    /\ BagCardinality(accounts) = 1
    /\ \E r \in BagToSet(accounts) : r.password = <<"a", "b", "c", "*">>

Telemetry == {"account", "image", "stat"}

PostUrl(op) ==
    CASE op = "account" -> "/post/account"
      [] op = "image"   -> "/post/image"
      [] op = "stat"    -> "/post/stat"
      [] op = "reset"   -> "/post/reset"
      [] OTHER          -> "/post/services"

(* one request, to url, was submitted in this step, and no worker moved *)
Posted(url) ==
    /\ Len(queue') = Len(queue) + 1
    /\ SubSeq(queue', 1, Len(queue)) = queue
    /\ Last(queue').location.url = url
    /\ Last(queue').location.host = host
    /\ inflight' = inflight

(* C6, as claimed: with a loopback host every account, image and stat call issues no
   HTTP request; with any other host every account, image and stat call issues an
   HTTP POST and writes nothing to the store. *)
ModeSelectionEveryCall ==
    [][\A op \in Telemetry :
          Called(op) =>
              IF host \in LoopbackHosts
              THEN channel' = channel
              ELSE Posted(PostUrl(op)) /\ store' = store]_vars

(* C6, as the code has it: with a loopback host every account, image and stat call
   issues no HTTP request, a stat call adds a row and an image call on an existing
   path writes the Image table; with any other host every account and stat call,
   and every image call on an existing path, issues one HTTP POST to its path and
   writes nothing to the store; an image call on a missing path does neither. *)
ModeSelection ==
    [][\A op \in Telemetry :
          Called(op) =>
              LET missing == op = "image" /\ ret'.args[1] \notin DOMAIN FileSystem
              IN  IF host \in LoopbackHosts
                  THEN /\ channel' = channel
                       /\ op = "stat" => stats' # stats
                       /\ op = "image" => (images' # images <=> ~missing)
                  ELSE /\ store' = store
                       /\ IF missing THEN channel' = channel
                          ELSE Posted(PostUrl(op))]_vars

(* a remote image call on an existing file has posted it and stored nothing *)
ModeSelectionWitness ==
    /\ host \notin LoopbackHosts
    /\ ret = Returned("image", << <<"a", ".", "p">> >>, None)
    /\ queue # <<>>
    /\ Last(queue).location.url = "/post/image"
    /\ images = EmptyBag

(* C7: in local mode the Stat table holds exactly one row per stat call made, also
   when the calls are identical: as many rows as calls, and for every proto and
   count as many rows as calls with them. *)
StatAppendOnly ==
    host \in LoopbackHosts =>
        /\ BagCardinality(stats) = RowCount(log, {c \in BagToSet(log) : c[1] = "stat"})
        /\ \A c \in BagToSet(log) :
               c[1] = "stat" =>
                   RowCount(stats, {r \in BagToSet(stats) :
                                       /\ r.proto = c[2][1]
                                       /\ r.count = c[2][2]
                                       /\ r.username = username}) = CopiesIn(c, log)

(* two identical stat calls at the same second left two identical rows *)
StatAppendOnlyWitness ==
    /\ host \in LoopbackHosts
    /\ BagCardinality(stats) = 2
    /\ \E r \in BagToSet(stats) : CopiesIn(r, stats) = 2

Requests == {queue[k] : k \in 1..Len(queue)} \cup BagToSet(inflight)

LoginPost ==
    [location |-> [scheme |-> IF ssl THEN "https://" ELSE "http://", host |-> host,
                   port |-> port, url |-> "/post/login"],
     data |-> [username |-> ret.args[3], password |-> ret.args[4]],
     files |-> {}, awaited |-> TRUE]

Untouched ==
    /\ accounts = EmptyBag /\ images = EmptyBag /\ stats = EmptyBag
    /\ log = EmptyBag

LoginOrder ==
    /\ pc = "none" => Outstanding = 0 /\ Untouched
    /\ pc = "constructing" =>
           /\ ~loginAnswered /\ Untouched
           /\ waiting = "login" /\ ret.kind = "pending" /\ ret.op = "__init__"
           /\ Outstanding = 1 /\ Requests = {LoginPost}
    /\ pc = "ready" => loginAnswered
    /\ pc = "failed" =>
           /\ ~loginAnswered /\ Untouched /\ Outstanding = 0
           /\ ret.op = "__init__" /\ ret.kind = "raised"
    /\ (~Untouched \/ \E r \in Requests : r.location.url # "/post/login") =>
           loginAnswered /\ pc = "ready"

LoginStep ==
    /\ loginAnswered' # loginAnswered =>
           /\ pc = "constructing" /\ pc' = "ready" /\ loginAnswered'
           /\ inflight = SetToBag({LoginPost}) /\ inflight' = EmptyBag
    /\ (\E r \in BagToSet(inflight) : r.location.url = "/post/login" /\ WorkerFail(r)) =>
           pc' = "failed"
    /\ pc \in {"ready", "failed"} => pc' = pc

(* C8: in both modes the constructor posts to /post/login and waits: while it waits
   the login request is the only request and nothing else has happened; only the
   response to that request ends the wait with a client; a call, a request other
   than the login or a store row exists only after the response was received; when
   the collector cannot be reached the construction fails, for good, with nothing
   else done. *)
LoginFirst == []LoginOrder /\ [][LoginStep]_vars

(* a local client was constructed and a call of it has written the store *)
LoginFirstWitness ==
    /\ host \in LoopbackHosts
    /\ pc = "ready" /\ loginAnswered
    /\ stats # EmptyBag

ServiceCalls == {"services", "start", "stop"}

ServicePost(op, args) ==
    [location |-> [scheme |-> IF ssl THEN "https://" ELSE "http://", host |-> host,
                   port |-> port, url |-> "/post/services"],
     data |-> CASE op = "services" -> [action |-> <<"n", "o", "n", "e">>,
                                       parser |-> <<"n", "o", "n", "e">>]
                [] op = "start"    -> [action |-> <<"S", "t", "a", "r", "t">>,
                                       parser |-> args[1]]
                [] op = "stop"     -> [action |-> <<"S", "t", "o", "p">>,
                                       parser |-> args[1]],
     files |-> {}, awaited |-> TRUE]

(* what the bodies parse to *)
Parsed(body) ==
    CASE body = <<"[", "]">>      -> [tag |-> "list", items |-> <<>>]
      [] body = <<"[", "1", "]">> -> [tag |-> "list", items |-> <<1>>]
      [] OTHER                    -> [tag |-> "ValueError", items |-> <<>>]

ServiceWait ==
    \A op \in ServiceCalls :
        /\ waiting = op <=> (ret.op = op /\ ret.kind = "pending")
        /\ waiting = op => RowCount(inflight, {ServicePost(op, ret.args)})
                           + Cardinality({k \in 1..Len(queue) :
                                            queue[k] = ServicePost(op, ret.args)}) = 1
        /\ (ret.op = op /\ ret.kind # "pending") => \A r \in Requests : ~r.awaited

ServiceStep ==
    \A op \in ServiceCalls :
        /\ Called(op) =>
               /\ queue' = Append(queue, ServicePost(op, ret'.args))
               /\ inflight' = inflight /\ store' = store
               /\ ret'.kind = "pending"
        /\ (ret.op = op /\ ret.kind = "pending" /\ ret' # ret) =>
               /\ BagIn(ServicePost(op, ret.args), inflight)
               /\ inflight' = inflight (-) SetToBag({ServicePost(op, ret.args)})
               /\ ret'.op = op /\ ret'.args = ret.args
               /\ ret'.kind \in {"returned", "raised"}
               /\ \A b \in Bodies :
                      WorkerRespond(ServicePost(op, ret.args), b) =>
                          /\ ret'.value = Parsed(b)
                          /\ ret'.kind = "returned" <=> Parsed(b).tag = "list"

(* C9: services(), start(name) and stop(name) post to /post/services in local and in
   remote mode alike, the caller stays in the call while the request is queued or in
   flight, the call ends only when that request is answered (or fails), and what it
   returns is the parsed body of the response. *)
BlockingServices == []ServiceWait /\ [][ServiceStep]_vars

(* a local client's start(name) has returned the parsed list of the response *)
BlockingServicesWitness ==
    /\ host \in LoopbackHosts
    /\ ret = Returned("start", << <<"f", "t", "p">> >>, [tag |-> "list", items |-> <<1>>])
    /\ Outstanding = 0

FireAndForget == {"account", "image", "stat", "reset"}

NoWaitStep ==
    \A op \in FireAndForget :
        (Len(queue') > Len(queue) /\ ret'.op = op) =>
            /\ Posted(PostUrl(op))
            /\ ~Last(queue').awaited
            /\ ret'.kind = "returned" /\ ret'.value = None
            /\ waiting' = "none"

NeverBlocked ==
    (pc = "ready" /\ waiting = "none") =>
        /\ ENABLED reset("images")
        /\ host \notin LoopbackHosts =>
               /\ ENABLED account(PoolUser, PoolPassword, PoolText, PoolText, PoolText)
               /\ ENABLED image(PoolFile)
               /\ ENABLED stat(PoolText, 42)

(* C10: remote-mode account, image and stat, and reset in either mode, return to the
   caller in the step that submits their request, which is then the newest of the
   queue, not awaited; and they can be called whatever the workers are doing, also
   when all of them are busy. *)
NeverWaits == []NeverBlocked /\ [][NoWaitStep]_vars

(* all workers are busy and a remote account call has returned, its request queued *)
NeverWaitsWitness ==
    /\ host \notin LoopbackHosts
    /\ BagCardinality(inflight) = max_workers
    /\ queue # <<>>
    /\ Last(queue).location.url = "/post/account"
    /\ ret.op = "account" /\ ret.kind = "returned"

InCall == {c \in Callers : callers[c].pc \notin {"idle", "raised"}}

(* C11: when local image calls of callers that share the store interleave, no call
   fails on a duplicate key, no content has two rows, and once every call has
   finished each reported content has one row whose counter is the number of calls
   that reported it. *)
SharedImageCount ==
    /\ \A c \in Callers : callers[c].pc # "raised"
    /\ \A B \in Contents :
           RowCount(images, {r \in BagToSet(images) : r.md5sum = md5hash(B)}) <= 1
    /\ InCall = {} =>
           \A B \in Contents :
               /\ Reports(B) > 0 => \E r \in BagToSet(images) : r.md5sum = md5hash(B)
               /\ \A r \in BagToSet(images) :
                      r.md5sum = md5hash(B) => r.count = Reports(B)

ResetPost(env) ==
    [location |-> [scheme |-> IF ssl THEN "https://" ELSE "http://", host |-> host,
                   port |-> port, url |-> "/post/reset"],
     data |-> [type |-> env], files |-> {}, awaited |-> FALSE]

(* C12: in local and in remote mode alike, reset(env) submits exactly one request, a
   POST to /post/reset of this client's collector with the payload {type: env}, and
   leaves the Account, Image and Stat tables as they are, without opening a session
   on the store. *)
ResetFrame ==
    [][Called("reset") =>
          /\ queue' = Append(queue, ResetPost(ret'.args[1]))
          /\ inflight' = inflight
          /\ store' = store
          /\ sessions' = sessions]_vars

(* a local client that has stored a row has reset the collector's accounts: the
   request is queued and the row is still there *)
ResetFrameWitness ==
    /\ host \in LoopbackHosts
    /\ ret = Returned("reset", <<"accounts">>, None)
    /\ queue = <<ResetPost("accounts")>>
    /\ BagCardinality(accounts) = 1

Blocking == {"__init__", "services", "start", "stop"}

ConnectionError == [tag |-> "ConnectionError", items |-> <<>>]

FailureStep ==
    \A r \in BagToSet(inflight) :
        WorkerFail(r) =>
            /\ queue' = queue
            /\ inflight' = inflight (-) SetToBag({r})
            /\ store' = store
            /\ IF r.location.url \in {"/post/login", "/post/services"}
               THEN /\ ret.kind = "pending" /\ ret.op \in Blocking
                    /\ ret' = [ret EXCEPT !.kind = "raised", !.value = ConnectionError]
                    /\ waiting' = "none"
               ELSE ret' = ret /\ waiting' = waiting /\ pc' = pc

FailureSeen ==
    /\ (ret.kind = "raised" /\ ret.value = ConnectionError) => ret.op \in Blocking
    /\ ret.op \in FireAndForget => ret.kind = "returned" /\ ret.value = None

(* C13: when the collector cannot be reached for a request, the request leaves the
   pool and is not queued again; if it is the request of the constructor's login or
   of services, start or stop, the call that waits for it ends with the connection
   error, and if it is the request of account, image, stat or reset, the caller is
   not touched: these calls have returned None and never end with an error. *)
FailurePropagation == []FailureSeen /\ [][FailureStep]_vars

(* a remote client has reported a stat and then called services(), which raised the
   connection error; no request is left to be retried *)
FailurePropagationWitness ==
    /\ host \notin LoopbackHosts
    /\ ret = Raised("services", <<>>, "ConnectionError")
    /\ \E c \in BagToSet(log) : c[1] = "stat"
    /\ Outstanding = 0

(* C14: in local and in remote mode, image(path) on a path that does not exist
   returns None to the caller and does nothing else: no table of the store changes,
   no session is opened or closed, no request is submitted. *)
ImageMissingSkip ==
    [][(Called("image") /\ ret'.args[1] \notin DOMAIN FileSystem) =>
          /\ ret' = Returned("image", ret'.args, None)
          /\ store' = store
          /\ sessions' = sessions
          /\ channel' = channel
          /\ pc' = pc /\ waiting' = waiting]_vars

(* a local client stored an image and then reported a path that does not exist: the
   one row and the one session, closed, are those of the first call *)
ImageMissingSkipWitness ==
    /\ host \in LoopbackHosts
    /\ ret = Returned("image", << <<"m", ".", "p">> >>, None)
    /\ CopiesIn(<<"image", << <<"c">> >> >>, log) = 1
    /\ BagCardinality(log) = 2
    /\ BagCardinality(images) = 1
    /\ sessions = [opened |-> 1, closed |-> 1]
    /\ Outstanding = 0

(* C15: after a local account, image or stat call has returned, on the insert branch
   and on the no-insert branch, every session the call opened has been closed, so no
   session is open between calls. *)
SessionsReleased ==
    (ret.kind = "returned" /\ ret.op \in Telemetry) => sessions.closed = sessions.opened

AppendOnlyStep ==
    /\ \A r \in BagToSet(accounts) : CopiesIn(r, accounts') >= CopiesIn(r, accounts)
    /\ \A r \in BagToSet(stats) : CopiesIn(r, stats') >= CopiesIn(r, stats)
    /\ BagCardinality(accounts') <= BagCardinality(accounts) + 1
    /\ BagCardinality(stats') <= BagCardinality(stats) + 1
    /\ images' # images => Called("image")

(* C16: no step of the client changes or removes a row of the Account table or of the
   Stat table: every row is there, with the same values, after every step, and a step
   adds at most one row to each; the rows of the Image table are the only ones that
   change, and only in image calls. *)
AppendOnly == [][AppendOnlyStep]_vars

(* an account was stored and then reported again with another proto: the row is the
   one of the first report *)
AppendOnlyWitness ==
    /\ host \in LoopbackHosts
    /\ BagCardinality(log) = 2
    /\ \E c, d \in BagToSet(log) :
           /\ c[1] = "account" /\ d[1] = "account"
           /\ c[2][2] = d[2][2] /\ c[2][2] = <<"a", "b">>
           /\ c[2][4] # d[2][4]
    /\ BagCardinality(accounts) = 1
    /\ \E r \in BagToSet(accounts) : r.proto # ret.args[4]

ImageUpdateStep ==
    (/\ Called("image") /\ host \in LoopbackHosts
     /\ ret'.args[1] \in DOMAIN FileSystem
     /\ \E r \in BagToSet(images) : r.md5sum = md5hash(FileSystem[ret'.args[1]])) =>
        \E old \in BagToSet(images), new \in BagToSet(images') :
            /\ old.md5sum = md5hash(FileSystem[ret'.args[1]])
            /\ new.md5sum = old.md5sum
            /\ new.data = old.data
            /\ new.filetype = old.filetype
            /\ new.count = old.count + 1
            /\ new.timestamp = now' /\ now' >= old.timestamp
            /\ images' (-) SetToBag({new}) = images (-) SetToBag({old})

CounterStep ==
    \A r \in BagToSet(images) :
        \E q \in BagToSet(images') : q.md5sum = r.md5sum /\ q.count >= r.count

(* C17: a local image call on a file whose hash is stored replaces the row of that
   hash by one with the same hash, bytes and file type, the counter one higher and
   the timestamp read from the clock, whatever the name and extension of the file,
   and leaves every other row of the Image table as it is; in no step of the client
   does the counter of a hash go down. *)
ImageUpdateFrame == [][ImageUpdateStep /\ CounterStep]_vars

(* bytes stored from a.p were reported again from b.j: the one row still has the file
   type p, and its counter is 2 *)
ImageUpdateFrameWitness ==
    /\ host \in LoopbackHosts
    /\ ret = Returned("image", << <<"b", ".", "j">> >>, None)
    /\ CopiesIn(<<"image", << <<"a", ".", "p">> >> >>, log) = 1
    /\ \E r \in BagToSet(images) :
           /\ r.data = FileSystem[<<"b", ".", "j">>]
           /\ r.filetype = <<"p">>
           /\ r.count = 2
           /\ images = SetToBag({r})

PoolUrls == {"/post/login", "/post/account", "/post/image", "/post/stat", "/post/reset"}

Idling == BagCardinality(inflight) < max_workers

PoolBounded ==
    /\ BagCardinality(inflight) <= max_workers
    /\ (queue # <<>> /\ Idling) => ENABLED (WorkerStart /\ UNCHANGED log)

PoolStep ==
    \/ channel' = channel
    \/ /\ Len(queue') = Len(queue) + 1
       /\ SubSeq(queue', 1, Len(queue)) = queue
       /\ inflight' = inflight
    \/ /\ queue # <<>> /\ Idling
       /\ queue' = Tail(queue)
       /\ inflight' = inflight (+) SetToBag({Head(queue)})
    \/ /\ queue' = queue
       /\ \E r \in BagToSet(inflight) : inflight' = inflight (-) SetToBag({r})

PoolStarts ==
    \A u \in PoolUrls :
        (queue # <<>> /\ Head(queue).location.url = u /\ Idling)
            ~> (\E r \in BagToSet(inflight) : r.location.url = u)

(* C18: the pool of a client executes at most 10 requests at any moment; a request
   submitted, also while 10 are executed, is appended to the queue and the workers
   are left as they are; a request leaves the queue only as its oldest one, taken by
   a worker while fewer than 10 are executed, and leaves the workers only when it is
   answered or fails; while a request is queued and a worker is free a worker can
   take it, and the oldest request queued is then eventually executed. *)
PoolLimit == []PoolBounded /\ [][PoolStep]_vars /\ PoolStarts

(* all 10 workers execute account requests and a reset request, submitted meanwhile,
   is queued behind them *)
PoolLimitWitness ==
    /\ BagCardinality(inflight) = max_workers
    /\ \A r \in BagToSet(inflight) : r.location.url = "/post/account"
    /\ Len(queue) = 1
    /\ Head(queue).location.url = "/post/reset"

(* two logged account calls with the same username and info whose passwords differ but
   share their length and their first 3 characters *)
Twins(c, d) ==
    /\ c[1] = "account" /\ d[1] = "account"
    /\ c[2][1] = d[2][1] /\ c[2][3] = d[2][3]
    /\ c[2][2] # d[2][2]
    /\ Len(c[2][2]) = Len(d[2][2]) /\ Len(c[2][2]) >= 3
    /\ SubSeq(c[2][2], 1, 3) = SubSeq(d[2][2], 1, 3)

(* C19: in local mode, two account calls with the same username and info whose
   passwords differ but share their first 3 characters and their length leave exactly
   one AccountRecord, with the masked password, when the anonymize flag is set, and
   two records, one per password, when it is unset. *)
MaskedDedup ==
    host \in LoopbackHosts =>
        \A c, d \in BagToSet(log) :
            Twins(c, d) =>
                LET stored == {clean(Masked(c[2][2], anonymize)),
                               clean(Masked(d[2][2], anonymize))}
                    rows == {r \in BagToSet(accounts) : /\ r.username = clean(c[2][1])
                                                        /\ r.info = clean(c[2][3])
                                                        /\ r.password \in stored}
                IN  /\ RowCount(accounts, rows) = IF anonymize THEN 1 ELSE 2
                    /\ Cardinality(stored) = IF anonymize THEN 1 ELSE 2

(* an anonymizing local client was given abcd and then abce for the same user: one
   record, and the second call added none *)
MaskedDedupWitness ==
    /\ host \in LoopbackHosts /\ anonymize
    /\ \E c, d \in BagToSet(log) : Twins(c, d)
    /\ BagCardinality(log) = 2
    /\ BagCardinality(accounts) = 1

(* the (username, password, info) a logged account call has stored or would store *)
StoredTriple(c) ==
    <<clean(c[2][1]), clean(Masked(c[2][2], anonymize)), clean(c[2][3])>>

ReportedTriples == {StoredTriple(c) : c \in {d \in BagToSet(log) : d[1] = "account"}}

(* C20: in local mode the Account table holds as many rows as there are distinct
   stored triples with a non-empty password among the account calls made so far,
   whatever proto and parser they were reported with, and every row has the proto
   and parser of a call that reported its triple. *)
AccountsPerTriple ==
    host \in LoopbackHosts =>
        /\ BagCardinality(accounts)
               = Cardinality({t \in ReportedTriples : t[2] # <<>>})
        /\ \A r \in BagToSet(accounts) :
               \E c \in BagToSet(log) :
                   /\ c[1] = "account"
                   /\ StoredTriple(c) = <<r.username, r.password, r.info>>
                   /\ r.proto = clean(c[2][4]) /\ r.parser = clean(c[2][5])

====
